---- MODULE Spec2Model ----
(***************************************************************************)
(* Model of the entity-extraction and batched-persistence pipeline:        *)
(* response_schemas.py (schema registry, extractor) and sqlite_storage.py  *)
(* (batch ledger, entity tables, process_and_store_entities).              *)
(*                                                                         *)
(* Python values are modelled by string tokens.  A dict of scalars is a    *)
(* function from key strings to tokens; a Python object that the pipeline  *)
(* handles (a raw response, an extracted entity) is an Obj record:         *)
(*   isdict : whether the object is a dict                                 *)
(*   f      : its scalar-valued keys                                       *)
(*   items  : the content of its list-valued key ("posts"/"subreddits")    *)
(*   xm     : <<>> or <<m>>, the "extraction_metadata" key when present    *)
(*   data   : <<>> or <<o>>, the "data" key of a validation_error entity   *)
(* Batch identifiers (uuid4 strings in the code) are modelled by fresh     *)
(* positive integers; 0 stands for "no batch".                             *)
(***************************************************************************)
EXTENDS Integers, Sequences, FiniteSets, TLC

VARIABLES
    batches,            \* table batches: batch_id -> ledger row
    rows,               \* the five entity tables, in global insertion order
    returned,           \* batch ids that have been handed to a caller
    pc,                 \* per caller: position in process_and_store_entities
    raw_data,           \* per caller: argument raw_data as passed in
    function_name,      \* per caller: argument function_name
    function_metadata,  \* per caller: argument function_metadata
    caller_obj,         \* per caller: the caller's raw_data object (heap)
    batch_id,           \* per caller: local batch_id
    extracted_units,    \* per caller: local extracted_units
    todo,               \* per caller: entities the five loops still visit
    stored_counts,      \* per caller: local stored_counts
    error_messages,     \* per caller: local error_messages
    outcome,            \* per caller: the returned dictionary
    store_call,         \* the last store_* call a client made, and its result
    clock,              \* the wall clock, in whole seconds
    last_read,          \* the last get_batch_results call and what it returned
    files,              \* file store: the files in the five directories
    storage,            \* the module global _storage: 0 for None, or an instance
    instances,          \* number of storage objects constructed so far
    get_storage         \* per thread: its get_storage call and the instance it got

vars == <<batches, rows, returned, pc, raw_data, function_name,
          function_metadata, caller_obj, batch_id, extracted_units, todo,
          stored_counts, error_messages, outcome, store_call, clock,
          last_read, files, storage, instances, get_storage>>

\* the state outside the SQLite store and its callers' locals
outside == <<clock, last_read, files, storage, instances, get_storage>>

(***************************************************************************)
(* Bounds                                                                  *)
(***************************************************************************)
MaxBatches == 2      \* ledger rows ever created
MaxDirectRows == 1   \* rows inserted by store_* calls that clients make

(***************************************************************************)
(* Python / SQL values                                                     *)
(***************************************************************************)
NULL == "None"                       \* Python None, SQL NULL
BigInt == "9223372036854775808"      \* 2^63: too large for SQLite INTEGER
ListToken == "<list>"                \* marks a list-valued key of Obj.f
NestedToken == "<model>"             \* marks a nested-model key of Obj.f

PyEmptyDict == "py{}"
PyEmptyList == "py[]"
PyMetaTool == "py{'tool': 'reddit'}"
PyMetaClock == "py{'at': datetime}"  \* not JSON serializable
PyFlair == "py{'text': 'MEME'}"
PyAwards == "py[{'name': 'gold'}]"
PyContainers == {PyEmptyDict, PyEmptyList, PyMetaTool, PyMetaClock, PyFlair, PyAwards}

\* bool(v) of Python
Truthy(v) == v \notin {NULL, PyEmptyDict, PyEmptyList, "", "0", "False"}

\* json.dumps raises TypeError on these
Serializable(v) == v # PyMetaClock

\* json.dumps(v)
Dumps(v) ==
    CASE v = NULL -> "null"
      [] v = PyEmptyDict -> "{}"
      [] v = PyEmptyList -> "[]"
      [] v = PyMetaTool -> "{\"tool\": \"reddit\"}"
      [] v = PyFlair -> "{\"text\": \"MEME\"}"
      [] v = PyAwards -> "[{\"name\": \"gold\"}]"
      [] OTHER -> "\"" \o v \o "\""

\* json.loads(t)
Loads(t) ==
    CASE t = "null" -> NULL
      [] t = "{}" -> PyEmptyDict
      [] t = "[]" -> PyEmptyList
      [] t = "{\"tool\": \"reddit\"}" -> PyMetaTool
      [] t = "{\"text\": \"MEME\"}" -> PyFlair
      [] t = "[{\"name\": \"gold\"}]" -> PyAwards
      [] OTHER -> t

\* json.dumps(v) if v else None
DumpsIfTruthy(v) == IF Truthy(v) THEN Dumps(v) ELSE NULL

\* json.loads(t) if t else None  /  if row.get(field): row[field] = json.loads(..)
LoadsIfTruthy(t) == IF t # NULL /\ t # "" THEN Loads(t) ELSE t

EmptyDict == [k \in {} |-> NULL]

\* d.get(k)
Get(d, k) == IF k \in DOMAIN d THEN d[k] ELSE NULL

\* d.get(k, default)
GetOr(d, k, default) == IF k \in DOMAIN d THEN d[k] ELSE default

Obj(isdict, f, items) ==
    [isdict |-> isdict, f |-> f, items |-> items, xm |-> <<>>, data |-> <<>>]

DictObj(f) == Obj(TRUE, f, <<>>)

(***************************************************************************)
(* response_schemas.py: the model classes.  A model class is described by  *)
(* its required fields (no default), the fields that accept None, and the  *)
(* defaults of the remaining fields.                                       *)
(***************************************************************************)
PostItem ==
    [required |-> {"id", "title", "author", "score", "upvote_ratio",
                   "num_comments", "created_utc", "is_self", "over_18", "spoiler"},
     nullable |-> {"url", "permalink", "selftext", "link_url", "stickied",
                   "locked", "distinguished", "flair"},
     defaults |-> [url |-> NULL, permalink |-> NULL, selftext |-> "",
                   link_url |-> NULL, stickied |-> "False", locked |-> "False",
                   distinguished |-> NULL, flair |-> NULL],
     list |-> "", nested |-> {}]

GetTopPostsResponse ==
    [required |-> {"subreddit", "time_filter", "posts", "metadata"},
     nullable |-> {}, defaults |-> EmptyDict,
     list |-> "posts", nested |-> {"metadata"}]

UserInfo ==
    [required |-> {"username", "created_utc", "comment_karma", "link_karma",
                   "has_verified_email", "is_mod", "is_gold", "has_subscribed",
                   "is_employee", "over_18", "is_suspended",
                   "suspension_expiration_utc", "total_karma", "subreddit"},
     nullable |-> {"suspension_expiration_utc", "subreddit"},
     defaults |-> EmptyDict, list |-> "", nested |-> {}]

SubredditInfo ==
    [required |-> {"id", "display_name", "title", "public_description",
                   "description", "subscribers", "active_user_count",
                   "created_utc", "over18", "submission_type", "allow_images",
                   "allow_videos", "allow_polls", "spoilers_enabled",
                   "wikienabled", "user_is_banned", "user_is_moderator",
                   "user_is_subscriber", "mod_permissions", "metadata"},
     nullable |-> {"active_user_count"},
     defaults |-> EmptyDict, list |-> "", nested |-> {"metadata"}]

SubmissionInfo ==
    [required |-> {"id", "title", "author", "subreddit", "score", "upvote_ratio",
                   "num_comments", "created_utc", "url", "permalink", "is_self",
                   "selftext", "selftext_html", "link_url", "domain", "over_18",
                   "spoiler", "stickied", "locked", "archived", "distinguished",
                   "flair", "media", "preview", "awards", "metadata"},
     nullable |-> {"selftext_html", "distinguished", "flair", "media", "preview"},
     defaults |-> EmptyDict, list |-> "", nested |-> {"metadata"}]

WhoAmIInfo ==
    [required |-> {"id", "name", "created_utc", "comment_karma", "link_karma",
                   "total_karma", "awardee_karma", "awarder_karma",
                   "has_verified_email", "is_employee", "is_friend", "is_gold",
                   "is_mod", "is_suspended", "verified", "has_subscribed",
                   "snoovatar_img", "icon_img", "pref_show_snoovatar",
                   "snoovatar_size", "subreddit", "metadata"},
     nullable |-> {"snoovatar_size", "subreddit"},
     defaults |-> EmptyDict, list |-> "", nested |-> {"metadata"}]

TrendingSubredditItem ==
    [required |-> {"display_name", "title", "subscribers", "trending_reason"},
     nullable |-> {"trending_reason"},
     defaults |-> EmptyDict, list |-> "", nested |-> {}]

GetTrendingSubredditsResponse ==
    [required |-> {"subreddits", "metadata"},
     nullable |-> {}, defaults |-> EmptyDict,
     list |-> "subreddits", nested |-> {}]

\* the item class of a list-valued field
ItemModel(model) ==
    IF model.list = "posts" THEN PostItem ELSE TrendingSubredditItem

FUNCTION_SCHEMAS ==
    [get_user_info |-> UserInfo,
     who_am_i |-> WhoAmIInfo,
     get_top_posts |-> GetTopPostsResponse,
     get_subreddit_info |-> SubredditInfo,
     get_subreddit_stats |-> SubredditInfo,
     get_trending_subreddits |-> GetTrendingSubredditsResponse,
     get_submission_by_url |-> SubmissionInfo,
     get_submission_by_id |-> SubmissionInfo]

\* get_schema_for_function(fn) is not None
HasSchema(fn) == fn \in DOMAIN FUNCTION_SCHEMAS

Fields(model) == model.required \cup DOMAIN model.defaults

\* pydantic validation of a dict of scalars: every required field is present
\* and None is given only to Optional fields
ValidDict(model, d) ==
    /\ model.required \subseteq DOMAIN d
    /\ \A k \in DOMAIN d \cap Fields(model) : d[k] = NULL => k \in model.nullable

\* schema(**data) does not raise
Validates(model, o) ==
    /\ o.isdict
    /\ ValidDict(model, o.f)
    /\ model.list # "" =>
          \A i \in 1..Len(o.items) : ValidDict(ItemModel(model), o.items[i])

\* model.dict(): the declared fields, defaults filled in, extra keys dropped
ModelDict(model, d) ==
    [k \in Fields(model) |-> IF k \in DOMAIN d THEN d[k] ELSE model.defaults[k]]

KINDS == <<"users", "posts", "comments", "subreddits", "submissions">>

KindSet == {KINDS[i] : i \in 1..Len(KINDS)}

\* the initial mapping with the "comments" list left out
EmptyEntitiesNoComments == [k \in KindSet \ {"comments"} |-> <<>>]

\* entities = {"users": [], "posts": [], "comments": [], ...}
EmptyEntities == [k \in KindSet |-> <<>>]

RECURSIVE TopPostsUsersMerged(_)
\* user stubs with one stub per distinct author: a post whose author already
\* has a stub from a later post adds none
TopPostsUsersMerged(posts) ==
    IF posts = <<>> THEN <<>>
    ELSE LET post == [k \in {"author"} |-> Head(posts)[k]]
             rest == TopPostsUsersMerged(Tail(posts))
         IN IF /\ post["author"] # "[deleted]"
               /\ \A i \in 1..Len(rest) : rest[i].f["username"] # post["author"]
            THEN <<DictObj([username |-> post["author"], post_activity |-> "True"])>> \o rest
            ELSE rest

RECURSIVE TopPostsUsers(_)
\* the user stubs of get_top_posts, one per post whose author is not deleted
TopPostsUsers(posts) ==
    IF posts = <<>> THEN <<>>
    ELSE LET post == ModelDict(PostItem, Head(posts))
             rest == TopPostsUsers(Tail(posts))
         IN IF post["author"] # "[deleted]"
            THEN <<DictObj([username |-> post["author"], post_activity |-> "True"])>> \o rest
            ELSE rest

\* the count replaced by a flag: whether the list has items
LenTokenFlag(s) == IF s = <<>> THEN "0" ELSE "1"

\* str(len(response.posts))
LenToken(s) ==
    CASE Len(s) = 0 -> "0" [] Len(s) = 1 -> "1" [] Len(s) = 2 -> "2"
      [] Len(s) = 3 -> "3" [] OTHER -> "4+"

\* _extract_entities_from_validated_response
ExtractValidated(o, fn) ==
    LET model == FUNCTION_SCHEMAS[fn]
        response == ModelDict(model, o.f)
    IN CASE fn \in {"get_user_info", "who_am_i"} ->
              [EmptyEntities EXCEPT !["users"] = <<DictObj(response)>>]
         [] fn = "get_top_posts" ->
              [EmptyEntities EXCEPT
                 !["subreddits"] = <<DictObj([name |-> response["subreddit"],
                                              time_filter |-> response["time_filter"],
                                              post_count |-> LenToken(o.items)])>>,
                 !["posts"] = [i \in 1..Len(o.items) |->
                                  DictObj(ModelDict(PostItem, o.items[i]))],
                 !["users"] = TopPostsUsers(o.items)]
         [] fn \in {"get_subreddit_info", "get_subreddit_stats"} ->
              [EmptyEntities EXCEPT !["subreddits"] = <<DictObj(response)>>]
         [] fn = "get_trending_subreddits" ->
              [EmptyEntities EXCEPT
                 !["subreddits"] = [i \in 1..Len(o.items) |->
                      DictObj(ModelDict(TrendingSubredditItem, o.items[i])
                              @@ [is_trending |-> "True"])]]
         [] fn \in {"get_submission_by_url", "get_submission_by_id"} ->
              [EmptyEntities EXCEPT
                 !["submissions"] = <<DictObj(response)>>,
                 !["users"] = IF response["author"] # "[deleted]"
                              THEN <<DictObj([username |-> response["author"],
                                              submission_activity |-> "True"])>>
                              ELSE <<>>,
                 !["subreddits"] = <<DictObj([name |-> response["subreddit"],
                                              submission_activity |-> "True"])>>]
         [] OTHER -> EmptyEntities

\* a validation_error entity that keeps only the scalar keys of the response
ValidationErrorEntityShallow(o) ==
    [isdict |-> TRUE, f |-> [error |-> "validation error"], items |-> <<>>,
     xm |-> <<>>, data |-> <<[o EXCEPT !.items = <<>>]>>]

\* the entity that captures a validation failure: {"error": str(e), "data": data}
ValidationErrorEntity(o) ==
    [isdict |-> TRUE, f |-> [error |-> "validation error"], items |-> <<>>,
     xm |-> <<>>, data |-> <<o>>]

\* extract_entities_from_response with the unclassified response left out
ExtractEntitiesDropsUnknown(o, fn) ==
    IF ~HasSchema(fn) THEN [unknown |-> <<>>]
    ELSE IF Validates(FUNCTION_SCHEMAS[fn], o)
         THEN ExtractValidated(o, fn)
         ELSE [validation_error |-> <<ValidationErrorEntity(o)>>]

\* extract_entities_from_response(data, function_name)
ExtractEntities(o, fn) ==
    IF ~HasSchema(fn) THEN [unknown |-> <<o>>]
    ELSE IF Validates(FUNCTION_SCHEMAS[fn], o)
         THEN ExtractValidated(o, fn)
         ELSE [validation_error |-> <<ValidationErrorEntity(o)>>]

\* entity["extraction_metadata"] = {...}, guarded by isinstance(entity, dict)
Stamp(e, fn, meta) ==
    IF e.isdict
    THEN [e EXCEPT !.xm = <<[function_name |-> fn, extracted_at |-> "now",
                             function_metadata |-> meta]>>]
    ELSE e

\* SQLiteStorage.parse_to_units(data, function_name, function_metadata)
ParseToUnits(o, fn, meta) ==
    LET units == ExtractEntities(o, fn)
    IN IF Truthy(meta)
       THEN [k \in DOMAIN units |->
                [i \in 1..Len(units[k]) |-> Stamp(units[k][i], fn, meta)]]
       ELSE units

\* the caller's object after parse_to_units: with no schema the returned
\* entity is the caller's object itself, so the stamp is written into it
CallerObjAfterParse(o, fn, meta) ==
    IF ~HasSchema(fn) /\ Truthy(meta) THEN Stamp(o, fn, meta) ELSE o

(***************************************************************************)
(* sqlite_storage.py: the tables                                           *)
(***************************************************************************)
\* column -> key of the entity dict that the INSERT binds to it
ColumnSource(kind) ==
    CASE kind = "users" ->
           [username |-> "username", created_utc |-> "created_utc",
            comment_karma |-> "comment_karma", link_karma |-> "link_karma",
            total_karma |-> "total_karma",
            has_verified_email |-> "has_verified_email",
            is_employee |-> "is_employee", is_mod |-> "is_mod",
            is_gold |-> "is_gold", over_18 |-> "over_18",
            is_suspended |-> "is_suspended",
            suspension_expiration_utc |-> "suspension_expiration_utc",
            subreddit_info |-> "subreddit"]
      [] kind = "posts" ->
           [post_id |-> "id", title |-> "title", author |-> "author",
            score |-> "score", upvote_ratio |-> "upvote_ratio",
            num_comments |-> "num_comments", created_utc |-> "created_utc",
            url |-> "url", permalink |-> "permalink", is_self |-> "is_self",
            selftext |-> "selftext", link_url |-> "link_url",
            over_18 |-> "over_18", spoiler |-> "spoiler",
            stickied |-> "stickied", locked |-> "locked",
            distinguished |-> "distinguished", flair |-> "flair"]
      [] kind = "comments" ->
           [comment_id |-> "id", author |-> "author", body |-> "body",
            parent_id |-> "parent_id", post_id |-> "post_id",
            created_utc |-> "created_utc", score |-> "score"]
      [] kind = "subreddits" ->
           [subreddit_id |-> "id", display_name |-> "display_name",
            title |-> "title", public_description |-> "public_description",
            description |-> "description", subscribers |-> "subscribers",
            active_user_count |-> "active_user_count",
            created_utc |-> "created_utc", over18 |-> "over18",
            submission_type |-> "submission_type",
            allow_images |-> "allow_images", allow_videos |-> "allow_videos",
            allow_polls |-> "allow_polls",
            spoilers_enabled |-> "spoilers_enabled"]
      [] kind = "submissions" ->
           [submission_id |-> "id", title |-> "title", author |-> "author",
            subreddit |-> "subreddit", score |-> "score",
            upvote_ratio |-> "upvote_ratio", num_comments |-> "num_comments",
            created_utc |-> "created_utc", url |-> "url",
            permalink |-> "permalink", is_self |-> "is_self",
            selftext |-> "selftext", selftext_html |-> "selftext_html",
            link_url |-> "link_url", domain |-> "domain",
            over_18 |-> "over_18", spoiler |-> "spoiler",
            stickied |-> "stickied", locked |-> "locked",
            archived |-> "archived", distinguished |-> "distinguished",
            flair |-> "flair", media |-> "media", preview |-> "preview",
            awards |-> "awards"]

\* the "-- JSON field" columns of a table
JsonCols(kind) ==
    CASE kind = "users" -> {"subreddit_info"}
      [] kind = "posts" -> {"flair"}
      [] kind = "submissions" -> {"flair", "media", "preview", "awards"}
      [] OTHER -> {}

\* the NOT NULL columns of a table (besides batch_id)
NotNullCols(kind) ==
    CASE kind = "users" -> {"username"}
      [] kind = "posts" -> {"post_id", "title"}
      [] kind = "comments" -> {"comment_id"}
      [] kind = "subreddits" -> {"display_name"}
      [] kind = "submissions" -> {"submission_id", "title"}

\* the value taken for a column when store_subreddit reads "display_name"
\* only, without falling back to "name"
SourceValueNoFallback(kind, e, col) == Get(e.f, ColumnSource(kind)[col])

\* the Python value a store_* method takes from the entity for a column
SourceValue(kind, e, col) ==
    IF kind = "subreddits" /\ col = "display_name"
    THEN GetOr(e.f, "display_name", Get(e.f, "name"))
    ELSE Get(e.f, ColumnSource(kind)[col])

\* the value bound to a column
BoundValue(kind, e, col) ==
    IF col \in JsonCols(kind)
    THEN DumpsIfTruthy(SourceValue(kind, e, col))
    ELSE SourceValue(kind, e, col)

\* the outcome of an INSERT on a connection that does not enforce foreign
\* keys (no PRAGMA foreign_keys = ON)
InsertErrorNoForeignKeys(kind, e, b, meta, ledger) ==
    LET src(c) == SourceValue(kind, e, c)
    IN CASE ~e.isdict -> "object has no attribute 'get'"
         [] \E c \in DOMAIN ColumnSource(kind) : src(c) = BigInt ->
              "Python int too large to convert to SQLite INTEGER"
         [] b = 0 -> "NOT NULL constraint failed: " \o kind \o ".batch_id"
         [] \E c \in NotNullCols(kind) : src(c) = NULL ->
              "NOT NULL constraint failed: " \o kind \o "."
                 \o (CHOOSE c \in NotNullCols(kind) : src(c) = NULL)
         [] OTHER -> ""

\* "" when the INSERT of a store_* method succeeds, else str(exception)
InsertError(kind, e, b, meta, ledger) ==
    LET cols == DOMAIN ColumnSource(kind)
        src(c) == SourceValue(kind, e, c)
    IN CASE ~e.isdict -> "object has no attribute 'get'"
         [] \E c \in JsonCols(kind) : Truthy(src(c)) /\ ~Serializable(src(c)) ->
              "Object is not JSON serializable"
         [] Truthy(meta) /\ ~Serializable(meta) -> "Object is not JSON serializable"
         [] \E c \in cols \ JsonCols(kind) :
                src(c) \in PyContainers \cup {ListToken, NestedToken} ->
              "Error binding parameter: type is not supported"
         [] \E c \in cols : src(c) = BigInt ->
              "Python int too large to convert to SQLite INTEGER"
         [] b = 0 -> "NOT NULL constraint failed: " \o kind \o ".batch_id"
         [] \E c \in NotNullCols(kind) : src(c) = NULL ->
              "NOT NULL constraint failed: " \o kind \o "."
                 \o (CHOOSE c \in NotNullCols(kind) : src(c) = NULL)
         [] b \notin 1..Len(ledger) -> "FOREIGN KEY constraint failed"
         [] OTHER -> ""

RowsOfKind(rs, kind) == SelectSeq(rs, LAMBDA r : r.kind = kind)

\* the row an INSERT of a store_* method adds
NewRow(kind, e, b, fn, meta, rs) ==
    [kind |-> kind,
     id |-> Len(RowsOfKind(rs, kind)) + 1,
     batch_id |-> b,
     cols |-> [c \in DOMAIN ColumnSource(kind) |-> BoundValue(kind, e, c)],
     source_function |-> fn,
     extracted_at |-> "now",
     function_metadata |-> DumpsIfTruthy(meta),
     created_at |-> clock]

\* an INSERT OR REPLACE keyed on (kind, batch_id): the earlier rows of the
\* batch in that table are lost
InsertRowReplacing(rs, kind, e, b, fn, meta) ==
    Append(SelectSeq(rs, LAMBDA r : ~(r.kind = kind /\ r.batch_id = b)),
           NewRow(kind, e, b, fn, meta, rs))

\* an insert that deduplicates on the external id: a row of the same table
\* with the same NOT NULL identity columns is overwritten in place
InsertRowUpsert(rs, kind, e, b, fn, meta) ==
    LET new == NewRow(kind, e, b, fn, meta, rs)
        same(r) == /\ r.kind = kind
                   /\ \A col \in NotNullCols(kind) : r.cols[col] = new.cols[col]
    IN IF \E i \in 1..Len(rs) : same(rs[i])
       THEN [i \in 1..Len(rs) |-> IF same(rs[i]) THEN [new EXCEPT !.id = rs[i].id]
                                  ELSE rs[i]]
       ELSE Append(rs, new)

\* store_user / store_post / store_comment / store_subreddit / store_submission:
\* the tables after a successful INSERT and commit
InsertRow(rs, kind, e, b, fn, meta) == Append(rs, NewRow(kind, e, b, fn, meta, rs))

\* the ledger row that create_batch inserts
NewBatch(b, fn, meta) ==
    [batch_id |-> b, function_name |-> fn, status |-> "processing",
     total_entities |-> 0, entities_stored |-> 0, errors |-> 0,
     function_metadata |-> DumpsIfTruthy(meta),
     started_at |-> "CURRENT_TIMESTAMP", completed_at |-> NULL,
     error_message |-> NULL]

\* an UPDATE that sets the status and the count but leaves errors and
\* error_message as create_batch wrote them
UpdatedLedgerStatusOnly(ledger, b, status, n, errs, msg) ==
    IF b \in 1..Len(ledger)
    THEN [ledger EXCEPT ![b] = [@ EXCEPT !.status = status,
                                          !.entities_stored = n,
                                          !.completed_at = "CURRENT_TIMESTAMP"]]
    ELSE ledger

\* update_batch_status: the UPDATE ... WHERE batch_id = ?
UpdatedLedger(ledger, b, status, n, errs, msg) ==
    IF b \in 1..Len(ledger)
    THEN [ledger EXCEPT ![b] = [@ EXCEPT !.status = status,
                                          !.entities_stored = n,
                                          !.errors = errs,
                                          !.error_message = msg,
                                          !.completed_at = "CURRENT_TIMESTAMP"]]
    ELSE ledger

\* get_batch_info(b): <<>> for None, else <<the dictionary>>
GetBatchInfo(b) ==
    IF b \in 1..Len(batches)
    THEN <<[batches[b] EXCEPT !.function_metadata = LoadsIfTruthy(@)]>>
    ELSE <<>>

\* dict(zip(columns, row)) with the JSON fields parsed
RowDict(r) ==
    [r EXCEPT !.cols = [c \in DOMAIN r.cols |->
                           IF c \in JsonCols(r.kind) THEN LoadsIfTruthy(r.cols[c])
                           ELSE r.cols[c]],
              !.function_metadata = LoadsIfTruthy(@)]

\* ORDER BY created_at with the rows compared by created_at alone: of two
\* rows with the same created_at the one met later in the scan comes first
OrderByCreatedAtLastFirst(sel) ==
    LET before(i, j) == \/ sel[i].created_at < sel[j].created_at
                        \/ sel[i].created_at = sel[j].created_at /\ i > j
        rank(i) == 1 + Cardinality({j \in 1..Len(sel) : before(j, i)})
    IN [n \in 1..Len(sel) |-> sel[CHOOSE i \in 1..Len(sel) : rank(i) = n]]

\* ORDER BY created_at: the rows found by the batch_id index (in rowid
\* order) go through the sorter, which keeps rows with equal keys in the
\* order in which it received them
OrderByCreatedAt(sel) ==
    LET before(i, j) == \/ sel[i].created_at < sel[j].created_at
                        \/ sel[i].created_at = sel[j].created_at /\ i < j
        rank(i) == 1 + Cardinality({j \in 1..Len(sel) : before(j, i)})
    IN [n \in 1..Len(sel) |-> sel[CHOOSE i \in 1..Len(sel) : rank(i) = n]]

\* get_batch_results(b) on the tables rs
BatchResults(rs, b) ==
    [k \in KindSet |->
        LET sel == OrderByCreatedAt(
                      SelectSeq(rs, LAMBDA r : r.kind = k /\ r.batch_id = b))
        IN [i \in 1..Len(sel) |-> RowDict(sel[i])]]

\* get_batch_results(b)
GetBatchResults(b) == BatchResults(rows, b)

(***************************************************************************)
(* Inputs: raw responses, operation names and call metadata                *)
(***************************************************************************)
Without(d, k) == [x \in DOMAIN d \ {k} |-> d[x]]

PostU1 ==
    [id |-> "abc1", title |-> "T", author |-> "u1", score |-> "10",
     upvote_ratio |-> "0.9", num_comments |-> "3", created_utc |-> "1.0",
     is_self |-> "False", over_18 |-> "False", spoiler |-> "False",
     flair |-> PyFlair]

PostDeleted == [PostU1 EXCEPT !.id = "abc2", !.title = "D", !.author = "[deleted]"]

PostBig == [PostU1 EXCEPT !.id = "abc3", !.title = "B", !.score = BigInt]

TopPostsRaw(posts) ==
    Obj(TRUE, [subreddit |-> "programming", time_filter |-> "day",
               posts |-> ListToken, metadata |-> NestedToken], posts)

RawTop0 == TopPostsRaw(<<>>)
RawTop1 == TopPostsRaw(<<PostU1>>)
RawTopDeleted == TopPostsRaw(<<PostDeleted>>)
RawTopBig == TopPostsRaw(<<PostBig>>)
RawTopSame == TopPostsRaw(<<PostU1, PostU1>>)
RawTopMixed == TopPostsRaw(<<PostU1, PostBig, PostDeleted>>)
RawTopPair == TopPostsRaw(<<PostDeleted, PostU1>>)
RawTopNoSubreddit == [RawTop1 EXCEPT !.f = Without(@, "subreddit")]

PostDeleted2 == [PostDeleted EXCEPT !.id = "abc4"]
PostBigDeleted1 == [PostBig EXCEPT !.author = "[deleted]"]
PostBigDeleted2 == [PostBig EXCEPT !.id = "abc5", !.author = "[deleted]"]

\* four posts without author stubs: the first and the last do not fit an
\* SQLite INTEGER
RawTopTwoBig ==
    TopPostsRaw(<<PostBigDeleted2, PostDeleted, PostDeleted2, PostBigDeleted1>>)

UserU1 ==
    [username |-> "u1", created_utc |-> "1.0", comment_karma |-> "5",
     link_karma |-> "7", has_verified_email |-> "True", is_mod |-> "False",
     is_gold |-> "False", has_subscribed |-> "False", is_employee |-> "False",
     over_18 |-> "False", is_suspended |-> "False",
     suspension_expiration_utc |-> NULL, total_karma |-> "12",
     subreddit |-> NULL]

RawUser == DictObj(UserU1)
RawUserBig == DictObj([UserU1 EXCEPT !.comment_karma = BigInt])
RawUserNoName == DictObj(Without(UserU1, "username"))

RawWho ==
    DictObj([id |-> "t2_me", name |-> "me", created_utc |-> "1.0",
             comment_karma |-> "5", link_karma |-> "7", total_karma |-> "12",
             awardee_karma |-> "0", awarder_karma |-> "0",
             has_verified_email |-> "True", is_employee |-> "False",
             is_friend |-> "False", is_gold |-> "False", is_mod |-> "False",
             is_suspended |-> "False", verified |-> "True",
             has_subscribed |-> "False", snoovatar_img |-> "",
             icon_img |-> "", pref_show_snoovatar |-> "False",
             snoovatar_size |-> NULL, subreddit |-> NULL,
             metadata |-> NestedToken])

SubmissionS1 ==
    [id |-> "s1", title |-> "S", author |-> "u2", subreddit |-> "python",
     score |-> "4", upvote_ratio |-> "0.5", num_comments |-> "0",
     created_utc |-> "2.0", url |-> "http://x", permalink |-> "/r/x",
     is_self |-> "True", selftext |-> "", selftext_html |-> NULL,
     link_url |-> "", domain |-> "self.python", over_18 |-> "False",
     spoiler |-> "False", stickied |-> "False", locked |-> "False",
     archived |-> "False", distinguished |-> NULL, flair |-> PyEmptyDict,
     media |-> NULL, preview |-> NULL, awards |-> PyAwards,
     metadata |-> NestedToken]

RawSubmission == DictObj(SubmissionS1)
RawSubmissionDeleted == DictObj([SubmissionS1 EXCEPT !.author = "[deleted]"])
RawSubmissionBig ==
    DictObj([SubmissionS1 EXCEPT !.author = "[deleted]", !.score = BigInt])

RawSubredditInfo ==
    DictObj([id |-> "2qgzt", display_name |-> "python", title |-> "Python",
             public_description |-> "", description |-> "",
             subscribers |-> "100", active_user_count |-> NULL,
             created_utc |-> "3.0", over18 |-> "False",
             submission_type |-> "any", allow_images |-> "True",
             allow_videos |-> "True", allow_polls |-> "True",
             spoilers_enabled |-> "True", wikienabled |-> "True",
             user_is_banned |-> "False", user_is_moderator |-> "False",
             user_is_subscriber |-> "False", mod_permissions |-> PyEmptyList,
             metadata |-> NestedToken])

RawTrending ==
    Obj(TRUE, [subreddits |-> ListToken, metadata |-> PyEmptyDict],
        <<[display_name |-> "python", title |-> "Python",
           subscribers |-> "100", trending_reason |-> NULL]>>)

RawArbitrary == DictObj([a |-> "1"])
RawList == Obj(FALSE, EmptyDict, <<[a |-> "1"]>>)

Raws == {RawTop0, RawTop1, RawTopDeleted, RawTopBig, RawTopSame, RawTopMixed,
         RawTopPair, RawTopNoSubreddit, RawUser, RawUserBig, RawUserNoName, RawWho,
         RawSubmission, RawSubmissionDeleted, RawSubmissionBig, RawSubredditInfo, RawTrending,
         RawArbitrary, RawList}

UnregisteredNames == {"unregistered_op", "create_post"}

FunctionNames == DOMAIN FUNCTION_SCHEMAS \cup UnregisteredNames

Metas == {NULL, PyEmptyDict, PyMetaTool, PyMetaClock}

\* the calls of process_and_store_entities that the stateful specification
\* makes: <<raw_data, function_name, function_metadata>>
Inputs ==
    {<<RawTop1, "get_top_posts", PyMetaTool>>,
     <<RawTopMixed, "get_top_posts", NULL>>,
     <<RawTopPair, "get_top_posts", NULL>>,
     <<RawWho, "who_am_i", NULL>>,
     <<RawUserBig, "get_user_info", PyMetaTool>>,
     <<RawArbitrary, "unregistered_op", PyMetaTool>>,
     <<RawList, "unregistered_op", NULL>>,
     <<RawTopNoSubreddit, "get_top_posts", PyEmptyDict>>,
     <<RawSubmission, "get_submission_by_id", PyEmptyDict>>,
     <<RawTop1, "get_top_posts", PyMetaClock>>}

Callers == {1, 2}

(***************************************************************************)
(* sqlite_storage.py: process_and_store_entities                           *)
(***************************************************************************)
CountKeys == KindSet \cup {"errors"}

ZeroCounts == [k \in CountKeys |-> 0]

\* extracted_units.get(kind, [])
UnitsGet(units, kind) == IF kind \in DOMAIN units THEN units[kind] ELSE <<>>

\* the entities in the order in which the five for-loops visit them
LoopOrder(units) ==
    LET part(k) == [i \in 1..Len(UnitsGet(units, k)) |->
                       [kind |-> k, entity |-> UnitsGet(units, k)[i]]]
    IN part("users") \o part("posts") \o part("comments")
         \o part("subreddits") \o part("submissions")

Singular(kind) ==
    CASE kind = "users" -> "user" [] kind = "posts" -> "post"
      [] kind = "comments" -> "comment" [] kind = "subreddits" -> "subreddit"
      [] kind = "submissions" -> "submission"

\* the key whose value names the entity in an error message
IdentKey(kind) ==
    CASE kind = "users" -> "username" [] kind = "subreddits" -> "name"
      [] OTHER -> "id"

\* f"Error storing user {user.get('username', 'unknown')}: {e}"
ErrorMsg(kind, e, err) ==
    "Error storing " \o Singular(kind) \o " "
       \o GetOr(e.f, IdentKey(kind), "unknown") \o ": " \o err

RECURSIVE Join(_)
\* "; ".join(msgs) of a non-empty list
Join(msgs) ==
    IF Len(msgs) = 1 THEN msgs[1] ELSE msgs[1] \o "; " \o Join(Tail(msgs))

\* the error message made of the first failure alone
ErrorMessageFirstOnly(msgs) == IF msgs # <<>> THEN msgs[1] ELSE NULL

\* "; ".join(error_messages) if error_messages else None
ErrorMessage(msgs) == IF msgs # <<>> THEN Join(msgs) ELSE NULL

\* sum(stored_counts[key] for key in stored_counts if key != "errors")
TotalEntities(counts) ==
    counts["users"] + counts["posts"] + counts["comments"]
      + counts["subreddits"] + counts["submissions"]

\* the status computed without looking at the error counter
BatchStatusAlwaysCompleted(counts) == "completed"

\* the status computed from the stored rows instead of the error counter
BatchStatusNeedsEntities(counts) ==
    IF TotalEntities(counts) > 0 /\ counts["errors"] = 0 THEN "completed" ELSE "failed"

\* "completed" if stored_counts["errors"] == 0 else "failed"
BatchStatus(counts) == IF counts["errors"] = 0 THEN "completed" ELSE "failed"

\* the dictionary that process_and_store_entities returns
Outcome(b, counts, msgs) ==
    [batch_id |-> b, status |-> BatchStatus(counts),
     total_entities |-> TotalEntities(counts), entities_stored |-> counts,
     errors |-> counts["errors"], error_message |-> ErrorMessage(msgs)]

\* the ledger after the update_batch_status call of process_and_store_entities
FinalizedLedger(ledger, b, counts, msgs) ==
    UpdatedLedger(ledger, b, BatchStatus(counts), TotalEntities(counts),
                  counts["errors"], ErrorMessage(msgs))

NoObj == Obj(FALSE, EmptyDict, <<>>)

NoOutcome ==
    [batch_id |-> 0, status |-> NULL, total_entities |-> 0,
     entities_stored |-> ZeroCounts, errors |-> 0, error_message |-> NULL]

\* json.dumps(function_metadata) if function_metadata else None raises
CreateBatchRaises(meta) == Truthy(meta) /\ ~Serializable(meta)

Idle(c) == pc[c] \in {"idle", "done", "raised"}

\* lines 717-731: create_batch, parse_to_units, the initial counters
Begin(c, raw, fn, meta) ==
    /\ Idle(c)
    /\ Len(batches) < MaxBatches
    /\ ~CreateBatchRaises(meta)
    /\ batches' = Append(batches, NewBatch(Len(batches) + 1, fn, meta))
    /\ batch_id' = [batch_id EXCEPT ![c] = Len(batches) + 1]
    /\ raw_data' = [raw_data EXCEPT ![c] = raw]
    /\ function_name' = [function_name EXCEPT ![c] = fn]
    /\ function_metadata' = [function_metadata EXCEPT ![c] = meta]
    /\ caller_obj' = [caller_obj EXCEPT ![c] = CallerObjAfterParse(raw, fn, meta)]
    /\ extracted_units' = [extracted_units EXCEPT ![c] = ParseToUnits(raw, fn, meta)]
    /\ todo' = [todo EXCEPT ![c] = LoopOrder(ParseToUnits(raw, fn, meta))]
    /\ stored_counts' = [stored_counts EXCEPT ![c] = ZeroCounts]
    /\ error_messages' = [error_messages EXCEPT ![c] = <<>>]
    /\ outcome' = [outcome EXCEPT ![c] = NoOutcome]
    /\ pc' = [pc EXCEPT ![c] = "store"]
    /\ UNCHANGED <<outside, store_call, rows, returned>>

\* line 717 when create_batch raises: the exception leaves the method and
\* nothing of its frame is left
BeginRaises(c, raw, fn, meta) ==
    /\ Idle(c)
    /\ Len(batches) < MaxBatches
    /\ CreateBatchRaises(meta)
    /\ batch_id' = [batch_id EXCEPT ![c] = 0]
    /\ raw_data' = [raw_data EXCEPT ![c] = raw]
    /\ function_name' = [function_name EXCEPT ![c] = fn]
    /\ function_metadata' = [function_metadata EXCEPT ![c] = meta]
    /\ caller_obj' = [caller_obj EXCEPT ![c] = raw]
    /\ extracted_units' = [extracted_units EXCEPT ![c] = EmptyEntities]
    /\ todo' = [todo EXCEPT ![c] = <<>>]
    /\ stored_counts' = [stored_counts EXCEPT ![c] = ZeroCounts]
    /\ error_messages' = [error_messages EXCEPT ![c] = <<>>]
    /\ outcome' = [outcome EXCEPT ![c] = NoOutcome]
    /\ pc' = [pc EXCEPT ![c] = "raised"]
    /\ UNCHANGED <<outside, store_call, batches, rows, returned>>

\* lines 734-782, one iteration of a for-loop whose store_* call succeeds
StoreOk(c) ==
    /\ pc[c] = "store"
    /\ todo[c] # <<>>
    /\ LET kind == Head(todo[c]).kind
           e == Head(todo[c]).entity
       IN /\ InsertError(kind, e, batch_id[c], function_metadata[c], batches) = ""
          /\ rows' = InsertRow(rows, kind, e, batch_id[c], function_name[c],
                               function_metadata[c])
          /\ stored_counts' = [stored_counts EXCEPT ![c][kind] = @ + 1]
    /\ todo' = [todo EXCEPT ![c] = Tail(@)]
    /\ UNCHANGED <<outside, store_call, batches, returned, pc, raw_data, function_name,
                   function_metadata, caller_obj, batch_id, extracted_units,
                   error_messages, outcome>>

\* the for-loops without their try/except: the first failing store_* call
\* leaves the method and the remaining entities are never visited
StoreFailsPropagates(c) ==
    /\ pc[c] = "store"
    /\ todo[c] # <<>>
    /\ InsertError(Head(todo[c]).kind, Head(todo[c]).entity, batch_id[c],
                   function_metadata[c], batches) # ""
    /\ pc' = [pc EXCEPT ![c] = "raised"]
    /\ UNCHANGED <<outside, store_call, batches, rows, returned, raw_data, function_name,
                   function_metadata, caller_obj, batch_id, extracted_units,
                   todo, stored_counts, error_messages, outcome>>

\* a failing store_* call that ends the loops (break) after counting the error
StoreFailsBreaks(c) ==
    /\ pc[c] = "store"
    /\ todo[c] # <<>>
    /\ LET kind == Head(todo[c]).kind
           e == Head(todo[c]).entity
           err == InsertError(kind, e, batch_id[c], function_metadata[c], batches)
       IN /\ err # ""
          /\ error_messages' = [error_messages EXCEPT ![c] =
                                   Append(@, ErrorMsg(kind, e, err))]
          /\ stored_counts' = [stored_counts EXCEPT ![c]["errors"] = @ + 1]
    /\ todo' = [todo EXCEPT ![c] = <<>>]
    /\ UNCHANGED <<outside, store_call, batches, rows, returned, pc, raw_data, function_name,
                   function_metadata, caller_obj, batch_id, extracted_units,
                   outcome>>

\* lines 734-782, one iteration of a for-loop whose store_* call raises
StoreFails(c) ==
    /\ pc[c] = "store"
    /\ todo[c] # <<>>
    /\ LET kind == Head(todo[c]).kind
           e == Head(todo[c]).entity
           err == InsertError(kind, e, batch_id[c], function_metadata[c], batches)
       IN /\ err # ""
          /\ error_messages' = [error_messages EXCEPT ![c] =
                                   Append(@, ErrorMsg(kind, e, err))]
          /\ stored_counts' = [stored_counts EXCEPT ![c]["errors"] = @ + 1]
    /\ todo' = [todo EXCEPT ![c] = Tail(@)]
    /\ UNCHANGED <<outside, store_call, batches, rows, returned, pc, raw_data, function_name,
                   function_metadata, caller_obj, batch_id, extracted_units,
                   outcome>>

\* lines 784-806: totals, update_batch_status, return
Finalize(c) ==
    /\ pc[c] = "store"
    /\ todo[c] = <<>>
    /\ batches' = FinalizedLedger(batches, batch_id[c], stored_counts[c],
                                  error_messages[c])
    /\ outcome' = [outcome EXCEPT ![c] =
                      Outcome(batch_id[c], stored_counts[c], error_messages[c])]
    /\ returned' = returned \cup {batch_id[c]}
    /\ pc' = [pc EXCEPT ![c] = "done"]
    /\ UNCHANGED <<outside, store_call, rows, raw_data, function_name, function_metadata,
                   caller_obj, batch_id, extracted_units, todo, stored_counts,
                   error_messages>>

(***************************************************************************)
(* sqlite_storage.py: the methods called directly                          *)
(***************************************************************************)
locals == <<pc, raw_data, function_name, function_metadata, caller_obj,
            batch_id, extracted_units, todo, stored_counts, error_messages,
            outcome>>

\* create_batch(fn, meta) called by a client
CreateBatch(fn, meta) ==
    /\ Len(batches) < MaxBatches
    /\ ~CreateBatchRaises(meta)
    /\ batches' = Append(batches, NewBatch(Len(batches) + 1, fn, meta))
    /\ returned' = returned \cup {Len(batches) + 1}
    /\ UNCHANGED <<outside, store_call, rows, locals>>

\* the arguments (status, entities_stored, errors, error_message) clients pass
UpdateArgs ==
    {<<"processing", 0, 0, NULL>>, <<"completed", 1, 0, NULL>>}

\* an update_batch_status that also clears the entity rows of the batch
UpdateBatchStatusPurges(b, a) ==
    /\ b \in returned
    /\ batches' = UpdatedLedger(batches, b, a[1], a[2], a[3], a[4])
    /\ rows' = SelectSeq(rows, LAMBDA r : r.batch_id # b)
    /\ UNCHANGED <<outside, store_call, returned, locals>>

\* update_batch_status(b, status, n, errs, msg) called by a client
UpdateBatchStatus(b, a) ==
    /\ b \in returned
    /\ batches' = UpdatedLedger(batches, b, a[1], a[2], a[3], a[4])
    /\ UNCHANGED <<outside, store_call, rows, returned, locals>>

\* the store_* calls that clients make: <<kind, entity>>
DirectEntities ==
    {<<"users", DictObj([username |-> "u9"])>>,
     <<"posts", DictObj([id |-> "abc1", title |-> "T2"])>>,
     <<"comments", DictObj([id |-> "c1", body |-> "hi"])>>,
     <<"subreddits", DictObj([name |-> "python"])>>,
     <<"submissions", DictObj([id |-> "s1", title |-> "S"])>>}

\* the batch ids clients pass: an id no batch has, and the ids they hold
DirectBatchIds == {MaxBatches + 1} \cup returned

\* the rows that direct store_* calls have inserted
DirectRows == SelectSeq(rows, LAMBDA r : r.source_function = "direct")

NoStoreCall == [batch_id |-> 0, error |-> ""]

\* store_user / store_post / ... (e, b, "direct", None) called by a client:
\* the INSERT and commit, or the exception that the call raises
StoreEntity(kind, e, b) ==
    LET err == InsertError(kind, e, b, NULL, batches)
    IN /\ err = "" => Len(DirectRows) < MaxDirectRows
       /\ rows' = IF err = "" THEN InsertRow(rows, kind, e, b, "direct", NULL)
                  ELSE rows
       /\ store_call' = [batch_id |-> b, error |-> err]
       /\ UNCHANGED <<outside, batches, returned, locals>>

(***************************************************************************)
(* Specification                                                           *)
(***************************************************************************)
MaxThreads == 3     \* threads that call get_storage

Threads == 1..MaxThreads

\* a thread that is not inside get_storage and holds no instance
NoCall == [pc |-> "out", result |-> 0]

NoRead == [batch_id |-> 0, seen |-> 0, result |-> <<>>]

\* no file written, no read made, no storage object constructed
OutsideInit ==
    /\ clock = 0
    /\ last_read = NoRead
    /\ files = {}
    /\ storage = 0
    /\ instances = 0
    /\ get_storage = [t \in Threads |-> NoCall]

Init ==
    /\ batches = <<>>
    /\ rows = <<>>
    /\ returned = {}
    /\ pc = [c \in Callers |-> IF c = 1 THEN "idle" ELSE "off"]
    /\ raw_data = [c \in Callers |-> NoObj]
    /\ function_name = [c \in Callers |-> NULL]
    /\ function_metadata = [c \in Callers |-> NULL]
    /\ caller_obj = [c \in Callers |-> NoObj]
    /\ batch_id = [c \in Callers |-> 0]
    /\ extracted_units = [c \in Callers |-> EmptyEntities]
    /\ todo = [c \in Callers |-> <<>>]
    /\ stored_counts = [c \in Callers |-> ZeroCounts]
    /\ error_messages = [c \in Callers |-> <<>>]
    /\ outcome = [c \in Callers |-> NoOutcome]
    /\ store_call = NoStoreCall
    /\ OutsideInit

Next ==
    \/ \E c \in Callers, in \in Inputs : Begin(c, in[1], in[2], in[3])
    \/ \E c \in Callers, in \in Inputs : BeginRaises(c, in[1], in[2], in[3])
    \/ \E c \in Callers : StoreOk(c)
    \/ \E c \in Callers : StoreFails(c)
    \/ \E c \in Callers : Finalize(c)
    \/ \E meta \in {NULL, PyMetaTool} : CreateBatch("get_top_posts", meta)
    \/ \E b \in returned, a \in UpdateArgs : UpdateBatchStatus(b, a)

Spec == Init /\ [][Next]_vars

\* a started call runs to its end: the method is straight-line code that
\* waits for nothing
FairSpec ==
    Spec /\ \A c \in Callers : WF_vars(StoreOk(c) \/ StoreFails(c) \/ Finalize(c))

(***************************************************************************)
(* The store with clients that also call store_* themselves: the batches   *)
(* are those that process_and_store_entities creates (its create_batch     *)
(* call), and clients pass their ids, or an id of no batch, to store_*     *)
(***************************************************************************)
\* the calls of process_and_store_entities made next to the direct calls
StoreInputs == {<<RawSubmissionBig, "get_submission_by_id", NULL>>}

\* the update_batch_status call made next to the direct calls
StoreUpdateArgs == {<<"completed", 1, 0, NULL>>}

StoreNext ==
    \/ \E c \in Callers, in \in StoreInputs : Begin(c, in[1], in[2], in[3])
    \/ \E c \in Callers : StoreOk(c)
    \/ \E c \in Callers : StoreFails(c)
    \/ \E c \in Callers : Finalize(c)
    \/ \E b \in returned, a \in StoreUpdateArgs : UpdateBatchStatus(b, a)
    \/ \E d \in DirectEntities, b \in DirectBatchIds : StoreEntity(d[1], d[2], b)

StoreSpec == Init /\ [][StoreNext]_vars

(***************************************************************************)
(* The store with a clock and clients that read batches back               *)
(***************************************************************************)
MaxClock == 2        \* seconds the clock advances

ReadInputs ==
    {<<RawTopTwoBig, "get_top_posts", NULL>>,
     <<RawTopDeleted, "get_top_posts", NULL>>}

\* a second passes
Tick ==
    /\ clock < MaxClock
    /\ clock' = clock + 1
    /\ UNCHANGED <<last_read, files, storage, instances, get_storage, store_call,
                   batches, rows, returned, locals>>

\* a get_batch_results call that hands the rows over and deletes them
GetBatchResultsCallConsumes(b) ==
    /\ last_read' = [batch_id |-> b, seen |-> Len(rows),
                     result |-> GetBatchResults(b)]
    /\ rows' = SelectSeq(rows, LAMBDA r : r.batch_id # b)
    /\ UNCHANGED <<clock, files, storage, instances, get_storage, store_call, batches,
                   returned, locals>>

\* get_batch_results(b) called by a client: five SELECTs, no write, no commit
GetBatchResultsCall(b) ==
    /\ last_read' = [batch_id |-> b, seen |-> Len(rows),
                     result |-> GetBatchResults(b)]
    /\ UNCHANGED <<clock, files, storage, instances, get_storage, store_call, batches,
                   rows, returned, locals>>

ReadNext ==
    \/ \E c \in Callers, in \in ReadInputs : Begin(c, in[1], in[2], in[3])
    \/ \E c \in Callers : StoreOk(c)
    \/ \E c \in Callers : StoreFails(c)
    \/ \E c \in Callers : Finalize(c)
    \/ Tick
    \/ \E b \in returned : GetBatchResultsCall(b)

ReadSpec == Init /\ [][ReadNext]_vars

(***************************************************************************)
(* Two threads calling process_and_store_entities on the same store: the   *)
(* one sqlite3 connection (check_same_thread=False) is used without a      *)
(* lock. A cursor.execute / connection.commit pair that runs while the     *)
(* other thread is inside its own call races with it on the connection's   *)
(* transaction state, and each outcome below is one the build produces.    *)
(***************************************************************************)
ConcInputs ==
    {<<RawUser, "get_user_info", PyMetaTool>>,
     <<RawUserBig, "get_user_info", NULL>>}

\* another thread is inside process_and_store_entities
Racing(c) == \E d \in Callers \ {c} : pc[d] = "store"

\* the exceptions that the racing execute / commit calls raise
RaceErrors ==
    {"cannot commit - no transaction is active",
     "cannot start a transaction within a transaction",
     "not an error",
     "error return without exception set"}

ConcInit ==
    /\ batches = <<>>
    /\ rows = <<>>
    /\ returned = {}
    /\ pc = [c \in Callers |-> "idle"]
    /\ raw_data = [c \in Callers |-> NoObj]
    /\ function_name = [c \in Callers |-> NULL]
    /\ function_metadata = [c \in Callers |-> NULL]
    /\ caller_obj = [c \in Callers |-> NoObj]
    /\ batch_id = [c \in Callers |-> 0]
    /\ extracted_units = [c \in Callers |-> EmptyEntities]
    /\ todo = [c \in Callers |-> <<>>]
    /\ stored_counts = [c \in Callers |-> ZeroCounts]
    /\ error_messages = [c \in Callers |-> <<>>]
    /\ outcome = [c \in Callers |-> NoOutcome]
    /\ store_call = NoStoreCall
    /\ OutsideInit

\* line 717 while the other thread is in its call: the INSERT of
\* create_batch is done, its commit raises and the exception leaves the method
BeginRace(c, raw, fn, meta) ==
    /\ Idle(c)
    /\ Racing(c)
    /\ Len(batches) < MaxBatches
    /\ ~CreateBatchRaises(meta)
    /\ batches' = Append(batches, NewBatch(Len(batches) + 1, fn, meta))
    /\ batch_id' = [batch_id EXCEPT ![c] = 0]
    /\ raw_data' = [raw_data EXCEPT ![c] = raw]
    /\ function_name' = [function_name EXCEPT ![c] = fn]
    /\ function_metadata' = [function_metadata EXCEPT ![c] = meta]
    /\ caller_obj' = [caller_obj EXCEPT ![c] = raw]
    /\ extracted_units' = [extracted_units EXCEPT ![c] = EmptyEntities]
    /\ todo' = [todo EXCEPT ![c] = <<>>]
    /\ stored_counts' = [stored_counts EXCEPT ![c] = ZeroCounts]
    /\ error_messages' = [error_messages EXCEPT ![c] = <<>>]
    /\ outcome' = [outcome EXCEPT ![c] = NoOutcome]
    /\ pc' = [pc EXCEPT ![c] = "raised"]
    /\ UNCHANGED <<outside, store_call, rows, returned>>

\* lines 734-782, one iteration whose store_* call races with the other
\* thread: the row is kept or lost with the shared transaction, and the
\* call returns (the row is counted) or raises err (an error is counted).
\* The iteration in which the row is kept and counted is StoreOk.
StoreRace(c, kept, counted, err) ==
    /\ pc[c] = "store"
    /\ Racing(c)
    /\ todo[c] # <<>>
    /\ ~(kept /\ counted)
    /\ LET kind == Head(todo[c]).kind
           e == Head(todo[c]).entity
       IN /\ InsertError(kind, e, batch_id[c], function_metadata[c], batches) = ""
          /\ rows' = IF kept
                     THEN InsertRow(rows, kind, e, batch_id[c], function_name[c],
                                    function_metadata[c])
                     ELSE rows
          /\ stored_counts' =
                IF counted THEN [stored_counts EXCEPT ![c][kind] = @ + 1]
                ELSE [stored_counts EXCEPT ![c]["errors"] = @ + 1]
          /\ error_messages' =
                IF counted THEN error_messages
                ELSE [error_messages EXCEPT ![c] = Append(@, ErrorMsg(kind, e, err))]
    /\ todo' = [todo EXCEPT ![c] = Tail(@)]
    /\ UNCHANGED <<outside, store_call, batches, returned, pc, raw_data,
                   function_name, function_metadata, caller_obj, batch_id,
                   extracted_units, outcome>>

\* lines 791-797 while the other thread is in its call: update_batch_status
\* raises, with its UPDATE kept or lost, and nothing is returned
FinalizeRace(c, kept) ==
    /\ pc[c] = "store"
    /\ Racing(c)
    /\ todo[c] = <<>>
    /\ batches' = IF kept
                  THEN FinalizedLedger(batches, batch_id[c], stored_counts[c],
                                       error_messages[c])
                  ELSE batches
    /\ pc' = [pc EXCEPT ![c] = "raised"]
    /\ UNCHANGED <<outside, store_call, rows, returned, raw_data, function_name,
                   function_metadata, caller_obj, batch_id, extracted_units,
                   todo, stored_counts, error_messages, outcome>>

ConcNext ==
    \/ \E c \in Callers, in \in ConcInputs : Begin(c, in[1], in[2], in[3])
    \/ \E c \in Callers, in \in ConcInputs : BeginRace(c, in[1], in[2], in[3])
    \/ \E c \in Callers : StoreOk(c)
    \/ \E c \in Callers : StoreFails(c)
    \/ \E c \in Callers, kept, counted \in BOOLEAN, err \in RaceErrors :
          StoreRace(c, kept, counted, err)
    \/ \E c \in Callers : Finalize(c)
    \/ \E c \in Callers, kept \in BOOLEAN : FinalizeRace(c, kept)

ConcSpec == ConcInit /\ [][ConcNext]_vars

(***************************************************************************)
(* sqlite_storage.py / file_storage.py: the module global _storage and     *)
(* get_storage, called by several threads. Storage objects are numbered    *)
(* in the order of their construction.                                     *)
(***************************************************************************)
\* `if _storage is None:` evaluated by a thread that enters get_storage
GetStorageTest(t) ==
    /\ get_storage[t].pc = "out"
    /\ get_storage' = [get_storage EXCEPT ![t] =
          [pc |-> IF storage = 0 THEN "construct" ELSE "return", result |-> 0]]
    /\ UNCHANGED <<clock, last_read, files, storage, instances, store_call,
                   batches, rows, returned, locals>>

\* `_storage = SQLiteStorage()`
GetStorageConstruct(t) ==
    /\ get_storage[t].pc = "construct"
    /\ instances' = instances + 1
    /\ storage' = instances + 1
    /\ get_storage' = [get_storage EXCEPT ![t].pc = "return"]
    /\ UNCHANGED <<clock, last_read, files, store_call, batches, rows, returned,
                   locals>>

\* `return _storage`
GetStorageReturn(t) ==
    /\ get_storage[t].pc = "return"
    /\ get_storage' = [get_storage EXCEPT ![t] = [pc |-> "out", result |-> storage]]
    /\ UNCHANGED <<clock, last_read, files, storage, instances, store_call,
                   batches, rows, returned, locals>>

SingletonNext ==
    \/ \E t \in Threads : GetStorageTest(t)
    \/ \E t \in Threads : GetStorageConstruct(t)
    \/ \E t \in Threads : GetStorageReturn(t)

SingletonSpec == Init /\ [][SingletonNext]_vars

(***************************************************************************)
(* file_storage.py: FileStorage.process_and_store_entities. A file is a    *)
(* record [dir, name, data]; its name is the pair <<clean_id, timestamp>>  *)
(* that stands for f"{clean_id}_{timestamp}.json".                         *)
(***************************************************************************)
\* "".join(c for c in identifier if c.isalnum() or c in '-_') on the
\* identifiers that occur; all but the listed ones consist of kept characters
CleanId(identifier) ==
    CASE identifier = "[deleted]" -> "deleted"
      [] identifier = "r/python" -> "rpython"
      [] OTHER -> identifier

\* _generate_filename(data_type, identifier) at second now
GenerateFilename(identifier, now) == <<CleanId(identifier), now>>

\* the file a loop iteration of store_extracted_units writes for entity e
FileFor(kind, e) ==
    [dir |-> kind,
     name |-> GenerateFilename(GetOr(e.f, IdentKey(kind), "unknown"), clock),
     data |-> e]

\* open(file_path, 'w') and json.dump: a file of that name is replaced
WriteFile(fs, f) ==
    {g \in fs : ~(g.dir = f.dir /\ g.name = f.name)} \cup {f}

FileInputs ==
    {<<RawTopMixed, "get_top_posts", NULL>>,
     <<RawTrending, "get_trending_subreddits", NULL>>}

\* process_and_store_entities(raw, fn, meta) up to the first loop:
\* parse_to_units, stored_counts = {...: 0}
FileBegin(c, raw, fn, meta) ==
    /\ pc[c] \in {"idle", "file_done"}
    /\ raw_data' = [raw_data EXCEPT ![c] = raw]
    /\ function_name' = [function_name EXCEPT ![c] = fn]
    /\ function_metadata' = [function_metadata EXCEPT ![c] = meta]
    /\ caller_obj' = [caller_obj EXCEPT ![c] = CallerObjAfterParse(raw, fn, meta)]
    /\ extracted_units' = [extracted_units EXCEPT ![c] = ParseToUnits(raw, fn, meta)]
    /\ todo' = [todo EXCEPT ![c] = LoopOrder(ParseToUnits(raw, fn, meta))]
    /\ stored_counts' = [stored_counts EXCEPT ![c] = ZeroCounts]
    /\ pc' = [pc EXCEPT ![c] = "file_store"]
    /\ UNCHANGED <<outside, store_call, batches, rows, returned, batch_id,
                   error_messages, outcome>>

\* one iteration of a for-loop of store_extracted_units: the file is
\* written and the kind's count is incremented
FileStore(c) ==
    /\ pc[c] = "file_store"
    /\ todo[c] # <<>>
    /\ files' = WriteFile(files, FileFor(Head(todo[c]).kind, Head(todo[c]).entity))
    /\ stored_counts' = [stored_counts EXCEPT ![c][Head(todo[c]).kind] = @ + 1]
    /\ todo' = [todo EXCEPT ![c] = Tail(@)]
    /\ UNCHANGED <<clock, last_read, storage, instances, get_storage, store_call,
                   batches, rows, returned, pc, raw_data, function_name,
                   function_metadata, caller_obj, batch_id, extracted_units,
                   error_messages, outcome>>

\* return stored_counts
FileReturn(c) ==
    /\ pc[c] = "file_store"
    /\ todo[c] = <<>>
    /\ pc' = [pc EXCEPT ![c] = "file_done"]
    /\ UNCHANGED <<outside, store_call, batches, rows, returned, raw_data,
                   function_name, function_metadata, caller_obj, batch_id,
                   extracted_units, todo, stored_counts, error_messages, outcome>>

FileNext ==
    \/ \E c \in Callers, in \in FileInputs : FileBegin(c, in[1], in[2], in[3])
    \/ \E c \in Callers : FileStore(c)
    \/ \E c \in Callers : FileReturn(c)
    \/ Tick

FileSpec == Init /\ [][FileNext]_vars

(***************************************************************************)
(* The extractor alone: parse_to_units applied to every input              *)
(***************************************************************************)
ExtractInit ==
    /\ batches = <<>>
    /\ rows = <<>>
    /\ returned = {}
    /\ pc = [c \in Callers |-> IF c = 1 THEN "extract" ELSE "off"]
    /\ \E raw \in Raws, fn \in FunctionNames, meta \in Metas :
          /\ raw_data = [c \in Callers |-> IF c = 1 THEN raw ELSE NoObj]
          /\ function_name = [c \in Callers |-> IF c = 1 THEN fn ELSE NULL]
          /\ function_metadata = [c \in Callers |-> IF c = 1 THEN meta ELSE NULL]
          /\ caller_obj = [c \in Callers |-> IF c = 1 THEN raw ELSE NoObj]
    /\ batch_id = [c \in Callers |-> 0]
    /\ extracted_units = [c \in Callers |-> EmptyEntities]
    /\ todo = [c \in Callers |-> <<>>]
    /\ stored_counts = [c \in Callers |-> ZeroCounts]
    /\ error_messages = [c \in Callers |-> <<>>]
    /\ outcome = [c \in Callers |-> NoOutcome]
    /\ store_call = NoStoreCall
    /\ OutsideInit

\* parse_to_units(raw_data, function_name, function_metadata)
Extract(c) ==
    /\ pc[c] = "extract"
    /\ extracted_units' = [extracted_units EXCEPT ![c] =
          ParseToUnits(raw_data[c], function_name[c], function_metadata[c])]
    /\ caller_obj' = [caller_obj EXCEPT ![c] =
          CallerObjAfterParse(raw_data[c], function_name[c], function_metadata[c])]
    /\ pc' = [pc EXCEPT ![c] = "extracted"]
    /\ UNCHANGED <<outside, store_call, batches, rows, returned, raw_data, function_name,
                   function_metadata, batch_id, todo, stored_counts,
                   error_messages, outcome>>

ExtractNext == \E c \in Callers : Extract(c)

ExtractSpec == ExtractInit /\ [][ExtractNext]_vars

TypeOK ==
    /\ \A c \in Callers :
          pc[c] \in {"idle", "store", "done", "raised", "off", "extract",
                    "extracted", "file_store", "file_done"}
    /\ Len(batches) <= MaxBatches

(***************************************************************************)
(* Properties                                                              *)
(***************************************************************************)
\* caller c's next step is the return of process_and_store_entities
Returns(c) == pc[c] = "store" /\ pc'[c] = "done"

\* caller c's next step is one iteration of a for-loop
Attempts(c) == pc[c] = "store" /\ pc'[c] = "store" /\ todo'[c] # todo[c]

\* the extracted entities of the five kinds whose insert fails
FailingEntities(c) ==
    LET all == LoopOrder(extracted_units[c])
    IN {i \in 1..Len(all) :
           InsertError(all[i].kind, all[i].entity, batch_id[c],
                       function_metadata[c], batches) # ""}

\* number of extracted entities of the five kinds
Extracted(c) == Len(LoopOrder(extracted_units[c]))

\* C1: whenever process_and_store_entities finalizes a batch, the status it
\* records in the ledger and the status it returns are "failed" exactly when
\* the number of failed inserts (errors) is greater than 0, and "completed"
\* otherwise.
C1_StatusFailedIffErrors ==
    [][\A c \in Callers : Returns(c) =>
          LET b == batch_id[c]
              expected == IF Cardinality(FailingEntities(c)) > 0
                          THEN "failed" ELSE "completed"
          IN /\ outcome'[c].errors = Cardinality(FailingEntities(c))
             /\ batches'[b].errors = outcome'[c].errors
             /\ outcome'[c].status = expected
             /\ batches'[b].status = expected]_vars

\* a call has returned "failed" for a batch in which five inserts succeeded
\* and one failed
C1_Witness ==
    \E c \in Callers :
       /\ pc[c] = "done"
       /\ outcome[c].status = "failed"
       /\ outcome[c].errors = 1
       /\ outcome[c].total_entities = 5
       /\ batches[outcome[c].batch_id].status = "failed"

\* C2: for every finalized batch, the record that get_batch_info returns has
\* total_entities equal to the number of rows stored for that batch, summed
\* over the five kinds.
C2_TotalEntitiesIsSum ==
    \A b \in 1..Len(batches) :
       batches[b].completed_at # NULL =>
          GetBatchInfo(b)[1].total_entities =
             Len(GetBatchResults(b)["users"]) + Len(GetBatchResults(b)["posts"])
               + Len(GetBatchResults(b)["comments"])
               + Len(GetBatchResults(b)["subreddits"])
               + Len(GetBatchResults(b)["submissions"])

\* C3: every iteration of the for-loops visits the next extracted entity and
\* either appends exactly one complete row of that kind for the batch and
\* increments that kind's stored count, or appends no row and increments
\* errors; at the return, the stored counts plus errors equal the number of
\* extracted entities of the five kinds.
C3_EachEntityAttemptedOnce ==
    [][\A c \in Callers :
          /\ Attempts(c) =>
                LET kind == Head(todo[c]).kind
                    stored == /\ Len(rows') = Len(rows) + 1
                              /\ SubSeq(rows', 1, Len(rows)) = rows
                              /\ rows'[Len(rows')].kind = kind
                              /\ rows'[Len(rows')].batch_id = batch_id[c]
                              /\ DOMAIN rows'[Len(rows')].cols = DOMAIN ColumnSource(kind)
                              /\ \A col \in NotNullCols(kind) :
                                    rows'[Len(rows')].cols[col] # NULL
                              /\ stored_counts'[c] =
                                    [stored_counts[c] EXCEPT ![kind] = @ + 1]
                    failed == /\ rows' = rows
                              /\ stored_counts'[c] =
                                    [stored_counts[c] EXCEPT !["errors"] = @ + 1]
                IN /\ todo'[c] = Tail(todo[c])
                   /\ stored \/ failed
          /\ Returns(c) =>
                /\ todo[c] = <<>>
                /\ TotalEntities(outcome'[c].entities_stored) + outcome'[c].errors
                      = Extracted(c)]_vars

\* a call has returned after six attempts of which the fourth (the second
\* post) failed
C3_Witness ==
    \E c \in Callers :
       /\ pc[c] = "done"
       /\ Extracted(c) = 6
       /\ outcome[c].entities_stored["users"] = 2
       /\ outcome[c].entities_stored["posts"] = 2
       /\ outcome[c].entities_stored["subreddits"] = 1
       /\ outcome[c].errors = 1

\* the rows that get_batch_results returns for batch b, over the five kinds
StoredRows(b) ==
    Len(GetBatchResults(b)["users"]) + Len(GetBatchResults(b)["posts"])
      + Len(GetBatchResults(b)["comments"]) + Len(GetBatchResults(b)["subreddits"])
      + Len(GetBatchResults(b)["submissions"])

\* C4: no step removes or changes a stored row, and when a call returns with
\* errors > 0 the batch is recorded as failed while get_batch_results still
\* returns every row the call inserted, per kind.
C4_NoRollback ==
    [][/\ SubSeq(rows', 1, Len(rows)) = rows
       /\ \A c \in Callers : (Returns(c) /\ outcome'[c].errors > 0) =>
             /\ batches'[batch_id[c]].status = "failed"
             /\ \A k \in KindSet :
                   Len(GetBatchResults(batch_id[c])[k]) = outcome'[c].entities_stored[k]]_vars

\* a failed batch: the post inserted before the failing post and the post
\* and the subreddit inserted after it are returned by get_batch_results
C4_Witness ==
    \E c \in Callers :
       /\ pc[c] = "done"
       /\ outcome[c].status = "failed"
       /\ Len(GetBatchResults(batch_id[c])["users"]) = 2
       /\ Len(GetBatchResults(batch_id[c])["posts"]) = 2
       /\ GetBatchResults(batch_id[c])["posts"][1].cols["post_id"] = "abc1"
       /\ GetBatchResults(batch_id[c])["posts"][2].cols["post_id"] = "abc2"
       /\ Len(GetBatchResults(batch_id[c])["subreddits"]) = 1
       /\ Len(error_messages[c]) = 1

\* C5: a batch's status is "processing" only while completed_at is unset;
\* once completed_at is set the status is "completed" or "failed".
C5_TerminalOnceCompleted ==
    \A b \in 1..Len(batches) :
       batches[b].completed_at # NULL => batches[b].status \in {"completed", "failed"}

\* C6: a call that has created its batch reaches its return with that same
\* batch finalized; the ledger row of the batch is untouched (status
\* "processing", completed_at unset) until the for-loops have visited every
\* entity, and it is written exactly once, by the step that returns.
C6_FinalizedExactlyOnce ==
    /\ \A c \in Callers :
          (pc[c] = "store")
             ~> (pc[c] = "done" /\ batches[batch_id[c]].completed_at # NULL)
    /\ [][\A c \in Callers : pc[c] = "store" => batch_id'[c] = batch_id[c]]_vars
    /\ [](\A c \in Callers : pc[c] = "store" =>
             /\ batches[batch_id[c]].status = "processing"
             /\ batches[batch_id[c]].completed_at = NULL)
    /\ [][\A c \in Callers :
             (pc[c] = "store" /\ batches'[batch_id[c]] # batches[batch_id[c]]) =>
                /\ todo[c] = <<>>
                /\ pc'[c] = "done"
                /\ batches'[batch_id[c]].completed_at # NULL]_vars

\* a call has returned after three insert attempts and its batch is finalized
C6_Witness ==
    \E c \in Callers :
       /\ pc[c] = "done"
       /\ Extracted(c) = 3
       /\ todo[c] = <<>>
       /\ batches[batch_id[c]].completed_at # NULL
       /\ batches[batch_id[c]].status = "completed"

\* C7: no call of process_and_store_entities ends with an exception.
C7_NothingEscapes == \A c \in Callers : pc[c] # "raised"

\* C8 as stated: for an operation with no registered schema, parse_to_units
\* returns exactly {"unknown": [raw_data]}, with or without call metadata.
C8_UnknownExactly ==
    \A c \in Callers :
       (pc[c] = "extracted" /\ ~HasSchema(function_name[c])) =>
          extracted_units[c] = [unknown |-> <<raw_data[c]>>]

\* the response passed in with an "extraction_metadata" key added
WithExtractionMetadata(o, fn, meta) ==
    [isdict |-> o.isdict, f |-> o.f, items |-> o.items, data |-> o.data,
     xm |-> <<[function_name |-> fn, extracted_at |-> "now",
               function_metadata |-> meta]>>]

\* C8 amended: for an operation with no registered schema, parse_to_units
\* returns a mapping with the single key "unknown" and a single element; the
\* element equals the response passed in when the call metadata is None or
\* empty or the response is not a dict, and otherwise it is the response
\* passed in with an "extraction_metadata" key added.
C8_UnknownExactlyUnlessStamped ==
    \A c \in Callers :
       (pc[c] = "extracted" /\ ~HasSchema(function_name[c])) =>
          /\ DOMAIN extracted_units[c] = {"unknown"}
          /\ Len(extracted_units[c]["unknown"]) = 1
          /\ extracted_units[c]["unknown"][1] =
                IF function_metadata[c] \in {NULL, PyEmptyDict} \/ ~raw_data[c].isdict
                THEN raw_data[c]
                ELSE WithExtractionMetadata(raw_data[c], function_name[c],
                                            function_metadata[c])

\* an unregistered operation was extracted with non-empty call metadata
C8_Witness ==
    \E c \in Callers :
       /\ pc[c] = "extracted"
       /\ function_name[c] = "unregistered_op"
       /\ function_metadata[c] = PyMetaTool
       /\ raw_data[c] = RawArbitrary
       /\ extracted_units[c]["unknown"][1].xm # <<>>

\* what C9 promises of a returned call
LegalEmptyOutcome(c) ==
    /\ outcome[c].status = "completed"
    /\ outcome[c].errors = 0
    /\ outcome[c].total_entities = 0
    /\ \A k \in KindSet : outcome[c].entities_stored[k] = 0

C10_UnknownRetrievable ==
    \A c \in Callers :
       (pc[c] = "done" /\ ~HasSchema(function_name[c])) =>
          /\ "unknown" \in DOMAIN GetBatchResults(outcome[c].batch_id)
          /\ Len(GetBatchResults(outcome[c].batch_id)["unknown"]) = 1

\* the response of caller c fails validation against a registered schema
Malformed(c) ==
    /\ HasSchema(function_name[c])
    /\ ~Validates(FUNCTION_SCHEMAS[function_name[c]], raw_data[c])

\* C11: for a response that fails validation against the schema of a
\* registered operation, parse_to_units returns a mapping whose only key is
\* "validation_error", holding one entry that has an "error" reason and whose
\* "data" is the response that was passed in; the caller's response object
\* is not changed.
C11_ValidationErrorKeepsData ==
    \A c \in Callers :
       (pc[c] = "extracted" /\ Malformed(c)) =>
          /\ DOMAIN extracted_units[c] = {"validation_error"}
          /\ Len(extracted_units[c]["validation_error"]) = 1
          /\ extracted_units[c]["validation_error"][1].data = <<raw_data[c]>>
          /\ "error" \in DOMAIN extracted_units[c]["validation_error"][1].f
          /\ caller_obj[c] = raw_data[c]

\* a top-posts response with a post list but no "subreddit" was extracted
\* with call metadata: the entry is stamped and its data is the response
C11_Witness ==
    \E c \in Callers :
       /\ pc[c] = "extracted"
       /\ function_name[c] = "get_top_posts"
       /\ raw_data[c] = RawTopNoSubreddit
       /\ function_metadata[c] = PyMetaTool
       /\ extracted_units[c]["validation_error"][1].data[1].items = <<PostU1>>
       /\ extracted_units[c]["validation_error"][1].xm # <<>>

\* C12: after a call whose response fails validation has returned, the store
\* holds a row for the batch that captures the payload: a row of an entity
\* table with that batch_id, or an entry under a "validation_error" key of
\* get_batch_results.
C12_MismatchInspectable ==
    \A c \in Callers :
       (pc[c] = "done" /\ Malformed(c)) =>
          \/ \E i \in 1..Len(rows) : rows[i].batch_id = batch_id[c]
          \/ /\ "validation_error" \in DOMAIN GetBatchResults(batch_id[c])
             /\ GetBatchResults(batch_id[c])["validation_error"] # <<>>

\* C13 as stated: for every registered operation and every response,
\* well-formed or malformed, parse_to_units returns a mapping that has all
\* five kinds as keys.
C13_FiveKindsAlways ==
    \A c \in Callers :
       (pc[c] = "extracted" /\ HasSchema(function_name[c])) =>
          KindSet \subseteq DOMAIN extracted_units[c]

\* C13 amended: for every registered operation, parse_to_units returns (it
\* never raises) a mapping whose keys are exactly the five kinds, possibly
\* with empty lists, when the response validates, and a mapping whose only
\* key is "validation_error" when it does not.
C13_FiveKindsWhenValid ==
    \A c \in Callers :
       (pc[c] = "extracted" /\ HasSchema(function_name[c])) =>
          IF Malformed(c)
          THEN DOMAIN extracted_units[c] = {"validation_error"}
          ELSE DOMAIN extracted_units[c] = KindSet

\* a well-formed user response was extracted: one user, four empty kinds
C13_Witness ==
    \E c \in Callers :
       /\ pc[c] = "extracted"
       /\ function_name[c] = "get_user_info"
       /\ raw_data[c] = RawUser
       /\ Len(extracted_units[c]["users"]) = 1
       /\ \A k \in KindSet \ {"users"} : extracted_units[c][k] = <<>>

\* C14: whenever call metadata is supplied to parse_to_units (any value other
\* than None, an empty dict included), every entity of the returned mapping
\* carries an "extraction_metadata" object holding the operation name, a
\* timestamp and the metadata, on the unknown-operation, validation-failure
\* and decomposition paths alike.
C14_StampedWheneverSupplied ==
    \A c \in Callers :
       (pc[c] = "extracted" /\ function_metadata[c] # NULL) =>
          \A k \in DOMAIN extracted_units[c] :
             \A i \in 1..Len(extracted_units[c][k]) :
                /\ Len(extracted_units[c][k][i].xm) = 1
                /\ extracted_units[c][k][i].xm[1].function_name = function_name[c]
                /\ extracted_units[c][k][i].xm[1].function_metadata = function_metadata[c]
                /\ "extracted_at" \in DOMAIN extracted_units[c][k][i].xm[1]

\* the positions of the items of a response whose author is not "[deleted]"
LiveAuthors(items) == {i \in 1..Len(items) : items[i]["author"] # "[deleted]"}

\* C15: in the decomposition of a valid get_top_posts response there is one
\* user stub {username, post_activity} per post whose author is not
\* "[deleted]", in the order of the posts, also when two posts share an
\* author, and no stub for "[deleted]"; in the decomposition of a valid
\* get_submission_by_url / get_submission_by_id response there is one stub
\* {username, submission_activity} iff the author is not "[deleted]".
C15_UserStubIffNotDeleted ==
    \A c \in Callers :
       (pc[c] = "extracted" /\ HasSchema(function_name[c]) /\ ~Malformed(c)) =>
          LET users == extracted_units[c]["users"]
              items == raw_data[c].items
          IN /\ function_name[c] = "get_top_posts" =>
                   /\ Len(users) = Cardinality(LiveAuthors(items))
                   /\ \A j \in 1..Len(users) :
                         /\ DOMAIN users[j].f = {"username", "post_activity"}
                         /\ users[j].f["post_activity"] = "True"
                         /\ users[j].f["username"] # "[deleted]"
                   /\ \A i \in LiveAuthors(items) :
                         users[Cardinality({k \in LiveAuthors(items) : k <= i})]
                            .f["username"] = items[i]["author"]
             /\ function_name[c] \in {"get_submission_by_url", "get_submission_by_id"} =>
                   IF raw_data[c].f["author"] # "[deleted]"
                   THEN /\ Len(users) = 1
                        /\ users[1].f = [username |-> raw_data[c].f["author"],
                                         submission_activity |-> "True"]
                   ELSE users = <<>>

\* a top-posts response with two posts by the same author was decomposed
\* into two user stubs
C15_Witness ==
    \E c \in Callers :
       /\ pc[c] = "extracted"
       /\ function_name[c] = "get_top_posts"
       /\ raw_data[c] = RawTopSame
       /\ Len(extracted_units[c]["users"]) = 2
       /\ extracted_units[c]["users"][1].f["username"] = "u1"
       /\ extracted_units[c]["users"][2].f["username"] = "u1"

\* the decimal numerals of the list lengths that occur
Numeral(n) == CASE n = 0 -> "0" [] n = 1 -> "1" [] n = 2 -> "2" [] n = 3 -> "3"

\* C16: the decomposition of a valid get_top_posts response has exactly one
\* entity under "subreddits", whatever the number of posts (zero included);
\* it carries the response's subreddit name, its time filter and a
\* post_count equal to the number of posts of the response.
C16_OneCommunityWithCount ==
    \A c \in Callers :
       (pc[c] = "extracted" /\ function_name[c] = "get_top_posts" /\ ~Malformed(c)) =>
          /\ Len(extracted_units[c]["subreddits"]) = 1
          /\ extracted_units[c]["subreddits"][1].f =
                [name |-> raw_data[c].f["subreddit"],
                 time_filter |-> raw_data[c].f["time_filter"],
                 post_count |-> Numeral(Len(raw_data[c].items))]
          /\ Len(extracted_units[c]["posts"]) = Len(raw_data[c].items)

\* a top-posts response with no posts was decomposed into one community
\* entity with post_count 0
C16_Witness ==
    \E c \in Callers :
       /\ pc[c] = "extracted"
       /\ function_name[c] = "get_top_posts"
       /\ raw_data[c] = RawTop0
       /\ extracted_units[c]["posts"] = <<>>
       /\ Len(extracted_units[c]["subreddits"]) = 1
       /\ extracted_units[c]["subreddits"][1].f["name"] = "programming"
       /\ extracted_units[c]["subreddits"][1].f["post_count"] = "0"

\* what C17 promises of the rows of batch b for the top-posts response raw
TopPostsRows(raw, b) ==
    LET res == GetBatchResults(b)
        items == raw.items
    IN /\ Len(res["posts"]) = Len(items)
       /\ \A i \in 1..Len(items) :
             /\ res["posts"][i].cols["title"] = items[i]["title"]
             /\ res["posts"][i].cols["post_id"] = items[i]["id"]
       /\ Len(res["users"]) = Cardinality(LiveAuthors(items))
       /\ \A i \in LiveAuthors(items) :
             res["users"][Cardinality({k \in LiveAuthors(items) : k <= i})]
                .cols["username"] = items[i]["author"]
       /\ Len(res["subreddits"]) = 1
       /\ res["subreddits"][1].cols["display_name"] = raw.f["subreddit"]

\* every integer of the posts fits SQLite's signed 64-bit INTEGER
FitsSqlite(raw) ==
    \A i \in 1..Len(raw.items) :
       \A k \in DOMAIN raw.items[i] : raw.items[i][k] # BigInt

C18_NoDeduplication ==
    [][\A c \in Callers :
          /\ (pc[c] # "store" /\ pc'[c] = "store") =>
                /\ batch_id'[c] \notin 1..Len(batches)
                /\ batch_id'[c] \in 1..Len(batches')
                /\ \A i \in 1..Len(rows) : rows[i].batch_id # batch_id'[c]
          /\ (Attempts(c) /\ stored_counts'[c]["errors"] = stored_counts[c]["errors"]) =>
                LET kind == Head(todo[c]).kind
                    e == Head(todo[c]).entity
                    new == rows'[Len(rows')]
                IN /\ Len(rows') = Len(rows) + 1
                   /\ SubSeq(rows', 1, Len(rows)) = rows
                   /\ new.kind = kind
                   /\ new.batch_id = batch_id[c]
                   /\ \A col \in NotNullCols(kind) :
                         new.cols[col] = SourceValue(kind, e, col)
                   /\ \A i \in 1..Len(rows) :
                         rows[i].kind = kind => rows[i].id # new.id]_vars

\* the same post was stored by two calls: two rows with the same post_id,
\* different surrogate ids and different batch ids
C18_Witness ==
    \E i, j \in 1..Len(rows) :
       /\ rows[i].kind = "posts" /\ rows[j].kind = "posts"
       /\ rows[i].cols["post_id"] = "abc1" /\ rows[j].cols["post_id"] = "abc1"
       /\ rows[i].batch_id = 1 /\ rows[j].batch_id = 2
       /\ rows[i].id # rows[j].id
       /\ {1, 2} \subseteq returned
       /\ batches[1].completed_at # NULL /\ batches[2].completed_at # NULL

\* C19: in every reachable state every row of the entity tables carries one
\* batch_id, that of a row of the ledger; a store_* call given a batch_id
\* that no ledger row has raises and adds no row.
C19_RowsReferenceBatches ==
    /\ [](\A i \in 1..Len(rows) : rows[i].batch_id \in 1..Len(batches))
    /\ [][(store_call' # store_call
            /\ store_call'.batch_id \notin 1..Len(batches)) =>
              /\ store_call'.error # ""
              /\ rows' = rows]_vars

\* a store_* call with the id of no batch failed on the foreign key while
\* the tables hold a row that a client inserted for an existing batch
C19_Witness ==
    /\ store_call.error = "FOREIGN KEY constraint failed"
    /\ store_call.batch_id \notin 1..Len(batches)
    /\ \E i \in 1..Len(rows) :
          rows[i].source_function = "direct" /\ rows[i].batch_id \in returned

\* C20: the entity tables are append-only: every step of create_batch, a
\* store_* call, update_batch_status or process_and_store_entities leaves
\* each row that is present at its place with all its field values.
C20_AppendOnly ==
    [][\A i \in 1..Len(rows) : i <= Len(rows') /\ rows'[i] = rows[i]]_vars

\* a batch with a row from process_and_store_entities was finalized with an
\* error and later updated by update_batch_status; the tables also hold a
\* row that a client inserted
C20_Witness ==
    \E b \in returned :
       /\ batches[b].completed_at # NULL
       /\ batches[b].errors = 0
       /\ \E i \in 1..Len(rows) :
             rows[i].batch_id = b /\ rows[i].source_function = "get_submission_by_id"
       /\ \E j \in 1..Len(rows) : rows[j].source_function = "direct"

\* the failure descriptions of caller c's batch, in the order in which the
\* for-loops meet the failing entities
ExpectedMessages(c) ==
    LET all == LoopOrder(extracted_units[c])
        bad == SelectSeq([i \in 1..Len(all) |-> i],
                         LAMBDA i : i \in FailingEntities(c))
    IN [n \in 1..Len(bad) |->
           ErrorMsg(all[bad[n]].kind, all[bad[n]].entity,
                    InsertError(all[bad[n]].kind, all[bad[n]].entity,
                                batch_id[c], function_metadata[c], batches))]

\* C21: when process_and_store_entities returns, the error_message of the
\* outcome and of the finalized ledger row are the same; it is None exactly
\* when errors = 0, and otherwise it is the "; "-joined text of exactly
\* errors failure descriptions, one per failed insert, in the order in which
\* the for-loops met the failures.
C21_ErrorMessageJoinsFailures ==
    [][\A c \in Callers : Returns(c) =>
          LET o == outcome'[c]
              expected == ExpectedMessages(c)
          IN /\ batches'[o.batch_id].error_message = o.error_message
             /\ (o.error_message = NULL) <=> (o.errors = 0)
             /\ Len(expected) = o.errors
             /\ o.errors > 0 => o.error_message = Join(expected)]_vars

\* a call has returned with two failures: post abc5, met first, and post
\* abc3, met last, with two successful posts between them
C21_Witness ==
    \E c \in Callers :
       /\ pc[c] = "done"
       /\ outcome[c].errors = 2
       /\ outcome[c].entities_stored["posts"] = 2
       /\ outcome[c].error_message =
             "Error storing post abc5: Python int too large to convert to SQLite INTEGER; Error storing post abc3: Python int too large to convert to SQLite INTEGER"

\* C22: concurrent process_and_store_entities calls on the same store are
\* independent batches: two calls in flight never share a batch id, every
\* row a call inserts carries that call's batch id, and when a call returns,
\* its counts and status reflect its own inserts: for every kind the rows of
\* its batch are as many as the count it returns, and it reports "failed"
\* exactly when one of its entities cannot be stored.
C22_ConcurrentCallsIndependent ==
    [][\A c \in Callers :
          /\ \A d \in Callers \ {c} :
                batch_id'[c] # 0 => batch_id'[c] # batch_id'[d]
          /\ Attempts(c) =>
                \A i \in Len(rows) + 1..Len(rows') : rows'[i].batch_id = batch_id[c]
          /\ Returns(c) =>
                /\ \A k \in KindSet :
                      Len(BatchResults(rows', outcome'[c].batch_id)[k])
                         = outcome'[c].entities_stored[k]
                /\ outcome'[c].errors = Cardinality(FailingEntities(c))
                /\ batches'[outcome'[c].batch_id].status = outcome'[c].status
                /\ (outcome'[c].status = "failed") <=> (FailingEntities(c) # {})]_vars

\* C23: get_batch_results is a side-effect-free, idempotent read: the call
\* changes neither the ledger nor any entity table, and as long as no row
\* has been written since the last call, a call with the same batch id
\* returns what that call returned.
C23_ReadIsPureAndIdempotent ==
    [][/\ last_read' # last_read => batches' = batches /\ rows' = rows
       /\ (last_read'.batch_id # 0 /\ last_read'.seen = Len(rows')) =>
             BatchResults(rows', last_read'.batch_id) = last_read'.result
       /\ (/\ last_read.batch_id # 0
           /\ last_read'.batch_id = last_read.batch_id
           /\ last_read'.seen = last_read.seen) =>
             last_read'.result = last_read.result]_vars

\* a batch with two posts and a subreddit has been read, a later batch has
\* been created since, and no row has been written after the read
C23_Witness ==
    /\ last_read.batch_id = 1
    /\ Len(last_read.result["posts"]) = 2
    /\ Len(last_read.result["subreddits"]) = 1
    /\ last_read.seen = Len(rows)
    /\ Len(batches) = 2

\* the rows of kind k and batch b in the order in which they were inserted
InsertionOrder(b, k) ==
    LET sel == SelectSeq(rows, LAMBDA r : r.kind = k /\ r.batch_id = b)
    IN [i \in 1..Len(sel) |-> RowDict(sel[i])]

C25_SingletonConstructedOnce ==
    /\ instances <= 1
    /\ \A t, u \in Threads :
          get_storage[t].result # 0 /\ get_storage[u].result # 0 =>
             get_storage[t].result = get_storage[u].result

\* C26: parse_to_units (and with it process_and_store_entities) leaves the
\* caller's raw response unchanged for every operation name and every call
\* metadata: after the call the object the caller passed in has the keys and
\* values it had before.
C26_RawResponseUnchanged ==
    \A c \in Callers : pc[c] \in {"extracted", "store", "done"} =>
       caller_obj[c] = raw_data[c]

\* C27: for every registered operation and every response that passes the
\* operation's schema validation, every entity that decomposition produces
\* has a value for each NOT NULL column of its table, so the call stores
\* all of them: it returns errors = 0 and status "completed", and the rows
\* stored are as many as the entities extracted.
C27_ValidResponsesStoreCompletely ==
    \A c \in Callers :
       (/\ pc[c] = "done"
        /\ HasSchema(function_name[c])
        /\ ~Malformed(c)) =>
          /\ \A i \in 1..Extracted(c) :
                LET u == LoopOrder(extracted_units[c])[i]
                IN \A col \in NotNullCols(u.kind) :
                      SourceValue(u.kind, u.entity, col) # NULL
          /\ outcome[c].errors = 0
          /\ outcome[c].status = "completed"
          /\ outcome[c].total_entities = Extracted(c)

\* C28: call metadata and JSON-blob fields round-trip through the store:
\* after a call that stored all its entities, get_batch_info returns the
\* metadata that was passed in (the empty object included), every row that
\* get_batch_results returns carries that metadata, and each blob field of a
\* row (flair, media, preview, awards, ...) equals the value the entity had,
\* empty objects and empty lists included.
C28_MetadataAndBlobsRoundTrip ==
    \A c \in Callers :
       (pc[c] = "done" /\ outcome[c].errors = 0) =>
          LET b == outcome[c].batch_id
          IN /\ GetBatchInfo(b)[1].function_metadata = function_metadata[c]
             /\ \A k \in KindSet : \A i \in 1..Len(GetBatchResults(b)[k]) :
                   LET row == GetBatchResults(b)[k][i]
                       entity == UnitsGet(extracted_units[c], k)[i]
                   IN /\ row.function_metadata = function_metadata[c]
                      /\ \A col \in JsonCols(k) :
                            row.cols[col] = SourceValue(k, entity, col)

\* C29: when process_and_store_entities returns outcome o, the ledger agrees
\* with it: get_batch_info(o.batch_id) finds the batch and reports the status,
\* errors and error_message of o, and for every kind get_batch_results
\* returns as many rows as o.entities_stored counts for the kind.
C29_LedgerAgreesWithOutcome ==
    [][\A c \in Callers : Returns(c) =>
          LET o == outcome'[c]
              info == GetBatchInfo(batch_id[c])'
              results == BatchResults(rows', batch_id[c])
          IN /\ o.batch_id = batch_id[c]
             /\ Len(info) = 1
             /\ info[1].status = o.status
             /\ info[1].errors = o.errors
             /\ info[1].error_message = o.error_message
             /\ \A k \in KindSet : Len(results[k]) = o.entities_stored[k]]_vars

\* a call has returned "failed" with one error and two posts stored, and the
\* ledger and the tables say the same
C29_Witness ==
    \E c \in Callers :
       /\ pc[c] = "done"
       /\ outcome[c].errors = 1
       /\ outcome[c].entities_stored["posts"] = 2
       /\ GetBatchInfo(outcome[c].batch_id)[1].errors = 1
       /\ GetBatchInfo(outcome[c].batch_id)[1].error_message = outcome[c].error_message
       /\ Len(GetBatchResults(outcome[c].batch_id)["posts"]) = 2

\* the number of files in the directory of kind k
FilesIn(fs, k) == Cardinality({f \in fs : f.dir = k})

\* C30: in the file-based store, store_extracted_units creates one distinct
\* file per entity it counts as stored: every loop iteration that increments
\* a kind's count adds one file to that kind's directory and removes or
\* replaces none, so that after the call the files added to each directory
\* are as many as the returned count, also when two entities share an
\* identifier or are stored within the same clock second.
C30_OneFilePerStoredEntity ==
    [][\A c \in Callers : \A k \in KindSet :
          stored_counts'[c][k] = stored_counts[c][k] + 1 =>
             /\ FilesIn(files', k) = FilesIn(files, k) + 1
             /\ files \subseteq files']_vars
====
